---- MODULE Spec2Model ----
(***************************************************************************)
(* PyRomano: Roman numerals (with uncia fractions) and Roman measures.     *)
(*                                                                         *)
(* Strings are sequences of one-character strings.  The middle dot U+00B7  *)
(* of the fraction glyphs is written ".".                                  *)
(*                                                                         *)
(* A number is <<n, d, e>>, d > 0: the value n/d + e * u, where            *)
(* u = 2^-56 / 3 is far below every difference between two rationals the   *)
(* model compares.  e is the representation error of a float: 1/12 is      *)
(* stored as 1/12 - u, 5/12 as 5/12 + 4u, while 0.5, 0.25, every int and   *)
(* every multiple of 1/16 below 4096 are exact (e = 0).  Numbers are       *)
(* ordered by n/d first and by e second.  Sums and differences are exact   *)
(* here; the code rounds them to 53 bits, which changes no comparison on   *)
(* the inputs used: two keys of min() with equal n/d are differences of    *)
(* floats within a factor two of each other, which floats take exactly.    *)
(* The measurement factors are taken as the decimals written in the source *)
(* and the measurement arithmetic as exact (e = 0 throughout).             *)
(***************************************************************************)
EXTENDS Integers, Sequences, FiniteSets, TLC

VARIABLES pc, op, arg, gen, ret, ret2

vars == <<pc, op, arg, gen, ret, ret2>>

\* ------------------------------------------------------------------ bounds
\* Decimal inputs of a_romano are the multiples of 1/Den, Den = 2^DenBits.
DenBits == 4
\* Largest integer part among the decimal inputs (one past the accepted range).
MaxInt == 4000
\* Free input strings of a_decimal: every string over Alphabet up to this length.
MaxLen == 4
\* Strings over the letters M, C, D up to this length.
MaxBig == 6
\* Padding put before and after a forbidden sequence.
MaxPad == 1
\* Measurement values are the multiples k / ValDen, k in -2 .. MaxVal.
MaxVal == 7
ValDen == 2

\* --------------------------------------------------------------- rationals
RECURSIVE Gcd(_, _)
Gcd(a, b) == IF b = 0 THEN a ELSE Gcd(b, a % b)

Abs(x) == IF x < 0 THEN -x ELSE x

Int2Rat(n) == <<n, 1, 0>>

RatNorm(q) ==
  LET g == Gcd(Abs(q[1]), q[2]) IN <<q[1] \div g, q[2] \div g, q[3]>>

RatEq(p, q) == p[1] * q[2] = q[1] * p[2] /\ p[3] = q[3]
RatLt(p, q) ==
  \/ p[1] * q[2] < q[1] * p[2]
  \/ p[1] * q[2] = q[1] * p[2] /\ p[3] < q[3]
RatGt(p, q) == RatLt(q, p)
RatLe(p, q) == ~RatLt(q, p)
RatAdd(p, q) == RatNorm(<<p[1] * q[2] + q[1] * p[2], p[2] * q[2], p[3] + q[3]>>)
RatSub(p, q) == RatNorm(<<p[1] * q[2] - q[1] * p[2], p[2] * q[2], p[3] - q[3]>>)
RatAbs(p) ==
  IF p[1] < 0 \/ (p[1] = 0 /\ p[3] < 0) THEN <<-p[1], p[2], -p[3]>> ELSE p

\* p * q and p / q, cross-reduced first so that the products stay small.
RatMul(p, q) ==
  LET g1 == Gcd(Abs(p[1]), q[2])
      g2 == Gcd(Abs(q[1]), p[2])
  IN  RatNorm(<<(p[1] \div g1) * (q[1] \div g2), (p[2] \div g2) * (q[2] \div g1), 0>>)
RatDiv(p, q) == RatMul(p, <<q[2], q[1], 0>>)

\* int(x) of a rational: truncation toward zero.
Trunc(q) == IF q[1] >= 0 THEN q[1] \div q[2] ELSE -((-q[1]) \div q[2])

\* ----------------------------------------------------------------- results
Ok(v) == [ok |-> TRUE, val |-> v]
RomanError(msg) == [ok |-> FALSE, err |-> msg]
None == [ok |-> FALSE, err |-> "none"]

\* ----------------------------------------------------------------- strings
DOT == "."

upper_char(c) ==
  CASE c = "i" -> "I" [] c = "v" -> "V" [] c = "x" -> "X" [] c = "l" -> "L"
    [] c = "c" -> "C" [] c = "d" -> "D" [] c = "m" -> "M" [] c = "s" -> "S"
    [] c = "h" -> "H" [] c = "n" -> "N" [] c = "a" -> "A" [] c = "e" -> "E"
    [] c = "p" -> "P" [] c = "u" -> "U" [] c = "t" -> "T" [] c = "b" -> "B"
    [] c = "r" -> "R" [] c = "o" -> "O" [] OTHER -> c

upper(s) == [k \in 1..Len(s) |-> upper_char(s[k])]

\* s.startswith(symbol, i), i counted from 0.
startswith(s, symbol, i) ==
  /\ i + Len(symbol) <= Len(s)
  /\ \A k \in 1..Len(symbol) : s[i + k] = symbol[k]

\* s.endswith(symbol)
endswith(s, symbol) ==
  /\ Len(symbol) <= Len(s)
  /\ \A k \in 1..Len(symbol) : s[Len(s) - Len(symbol) + k] = symbol[k]

\* sub in s
contains(sub, s) == \E i \in 0..(Len(s) - Len(sub)) : startswith(s, sub, i)

\* ------------------------------------------------------------------ NumRom
valores_romanos ==
  << <<<<"M">>, 1000>>, <<<<"C", "M">>, 900>>, <<<<"D">>, 500>>, <<<<"C", "D">>, 400>>,
     <<<<"C">>, 100>>, <<<<"X", "C">>, 90>>, <<<<"L">>, 50>>, <<<<"X", "L">>, 40>>,
     <<<<"X">>, 10>>, <<<<"I", "X">>, 9>>, <<<<"V">>, 5>>, <<<<"I", "V">>, 4>>,
     <<<<"I">>, 1>> >>

\* The floats 6/12 .. 5/12: 0.5 and 0.25 are exact, 0.08333333333333333 is
\* 1/12 - u, 0.16666666666666666 is 2/12 - 2u, 0.3333333333333333 is 4/12 - 4u
\* and 0.4166666666666667 is 5/12 + 4u.
valores_fracciones ==
  << <<<<"S">>, <<6, 12, 0>> >>, <<<<DOT>>, <<1, 12, -1>> >>, <<<<DOT, DOT>>, <<2, 12, -2>> >>,
     <<<<DOT, DOT, DOT>>, <<3, 12, 0>> >>, <<<<DOT, DOT, DOT, DOT>>, <<4, 12, -4>> >>,
     <<<<DOT, DOT, DOT, DOT, DOT>>, <<5, 12, 4>> >> >>

\* Variant: the list without its last entry.
invalid_sequences_sin_M ==
  << <<"I", "I", "I", "I">>, <<"V", "V">>, <<"X", "X", "X", "X">>, <<"L", "L">>,
     <<"C", "C", "C", "C">>, <<"D", "D">> >>
invalid_sequences ==
  << <<"I", "I", "I", "I">>, <<"V", "V">>, <<"X", "X", "X", "X">>, <<"L", "L">>,
     <<"C", "C", "C", "C">>, <<"D", "D">>, <<"M", "M", "M", "M">> >>

\* _valida_romano: the RomanError it raises, or Ok when it returns.
valida_romano(roman0) ==
  LET roman == upper(roman0)
      bad == {k \in 1..Len(invalid_sequences) : contains(invalid_sequences[k], roman)}
  IN  IF bad # {}
      THEN RomanError(<<"Secuencia invalida encontrada",
                        invalid_sequences[CHOOSE k \in bad : \A j \in bad : k <= j]>>)
      ELSE IF /\ \E f \in 1..Len(valores_fracciones) :
                    contains(valores_fracciones[f][1], roman)
              /\ \E i \in 0..(Len(roman) - 1) :
                    roman[i + 1] \in {"S", DOT} /\ i < Len(roman) - 6
      THEN RomanError(<<"Las fracciones deben estar al final del numero romano">>)
      ELSE Ok(<<>>)

\* The loop over _valores_romanos: table entry k, cursor i, sum so far.
RECURSIVE scan_romanos(_, _, _, _)
\* Variant: "if" in place of "while", each symbol is consumed at most once.
scan_romanos_once(roman, k, i, result) ==
  IF k > Len(valores_romanos) THEN <<i, result>>
  ELSE IF i < Len(roman) /\ startswith(roman, valores_romanos[k][1], i)
  THEN scan_romanos(roman, k + 1, i + Len(valores_romanos[k][1]), result + valores_romanos[k][2])
  ELSE scan_romanos(roman, k + 1, i, result)

scan_romanos(roman, k, i, result) ==
  IF k > Len(valores_romanos) THEN <<i, result>>
  ELSE IF i < Len(roman) /\ startswith(roman, valores_romanos[k][1], i)
  THEN scan_romanos(roman, k, i + Len(valores_romanos[k][1]), result + valores_romanos[k][2])
  ELSE scan_romanos(roman, k + 1, i, result)

\* The loop over _valores_fracciones: the first entry the string ends with, 0 if none.
scan_fracciones(roman) ==
  LET hit == {f \in 1..Len(valores_fracciones) : endswith(roman, valores_fracciones[f][1])}
  IN  IF hit = {} THEN 0 ELSE CHOOSE f \in hit : \A j \in hit : f <= j

\* Variant: the fraction loop without its "i += len(symbol)".
cursor_sin_fraccion(i, f) == i
\* The cursor after the fraction loop: advanced by the glyph matched, if any.
cursor_final(i, f) == IF f = 0 THEN i ELSE i + Len(valores_fracciones[f][1])

a_decimal(roman0) ==
  IF roman0 = <<>>
  THEN RomanError(<<"Entrada invalida">>)
  ELSE
    LET roman == upper(roman0)
        v == valida_romano(roman)
    IN  IF ~v.ok THEN v
        ELSE
          LET sc == scan_romanos(roman, 1, 0, 0)
              f == scan_fracciones(roman)
              i == cursor_final(sc[1], f)
              result == IF f = 0 THEN Int2Rat(sc[2])
                        ELSE RatAdd(Int2Rat(sc[2]), valores_fracciones[f][2])
          IN  IF i # Len(roman)
              THEN RomanError(<<"Numero romano invalido">>)
              ELSE Ok(result)

\* Variant: an upper limit of 3999.
max_decimal_entero == <<3999, 1, 0>>
\* The upper limit 3999.5 of a_romano.
max_decimal == <<7999, 2, 0>>
\* Variant: a threshold of 0.1, above the smallest fraction 1/12.
umbral_alto == <<1, 10, 0>>
\* The threshold 0.01 of a_romano.
umbral_fraccion == <<1, 100, 0>>

Nihil == <<"N", "i", "h", "i", "l">>

\* The loop over _valores_romanos in a_romano: table entry k, what is left.
RECURSIVE romano_entero(_, _)
\* Variant: "if" in place of "while", each symbol is appended at most once.
romano_entero_once(integer_part, k) ==
  IF k > Len(valores_romanos) THEN <<>>
  ELSE IF integer_part >= valores_romanos[k][2]
  THEN valores_romanos[k][1] \o romano_entero(integer_part - valores_romanos[k][2], k + 1)
  ELSE romano_entero(integer_part, k + 1)

romano_entero(integer_part, k) ==
  IF k > Len(valores_romanos) THEN <<>>
  ELSE IF integer_part >= valores_romanos[k][2]
  THEN valores_romanos[k][1] \o romano_entero(integer_part - valores_romanos[k][2], k)
  ELSE romano_entero(integer_part, k + 1)

\* min(_valores_fracciones, key = |value - fractional_part|): the first minimum.
closest_fraction(fractional_part) ==
  LET dist(f) == RatAbs(RatSub(valores_fracciones[f][2], fractional_part))
  IN  CHOOSE f \in 1..Len(valores_fracciones) :
        /\ \A j \in 1..Len(valores_fracciones) : RatLe(dist(f), dist(j))
        /\ \A j \in 1..(f - 1) : RatLt(dist(f), dist(j))

a_romano(decimal) ==
  IF RatLt(decimal, Int2Rat(0)) \/ RatGt(decimal, max_decimal)
  THEN RomanError(<<"Numero fuera de rango">>)
  ELSE
    LET integer_part == Trunc(decimal)
        fractional_part == RatSub(decimal, Int2Rat(integer_part))
        entero == IF integer_part > 0 THEN romano_entero(integer_part, 1) ELSE <<>>
        fraccion ==
          IF RatGt(fractional_part, Int2Rat(0))
          THEN LET c == closest_fraction(fractional_part)
               IN  IF RatGt(valores_fracciones[c][2], umbral_fraccion)
                   THEN valores_fracciones[c][1] ELSE <<>>
          ELSE <<>>
        result == entero \o fraccion
    IN  Ok(IF result # <<>> THEN result ELSE Nihil)

\* ------------------------------------------------- a_romano, then a_decimal
Den == 2 ^ DenBits
DecimalInputs == {<<n, Den, 0>> : n \in (-Den)..(MaxInt * Den + Den)}

InitRomano ==
  /\ pc = "start"
  /\ op = "none"
  /\ arg \in DecimalInputs
  /\ gen = [kind |-> "decimal"]
  /\ ret = None
  /\ ret2 = None

\* A caller invokes NumRom.a_romano(arg).
CallARomano ==
  /\ pc = "start"
  /\ pc' = "called"
  /\ op' = "a_romano"
  /\ ret' = a_romano(arg)
  /\ UNCHANGED <<arg, gen, ret2>>

\* The caller feeds the numeral it got back to NumRom.a_decimal.
BackToDecimal ==
  /\ pc = "called"
  /\ op = "a_romano"
  /\ ret.ok
  /\ pc' = "chained"
  /\ ret2' = a_decimal(ret.val)
  /\ UNCHANGED <<op, arg, gen, ret>>

NextRomano == CallARomano \/ BackToDecimal

SpecRomano == InitRomano /\ [][NextRomano]_vars

\* ------------------------------------------ properties of a_romano's inputs
IsInteger(q) == q[1] % q[2] = 0 /\ q[3] = 0
\* Equal up to the representation error of the floats.
SameRational(p, q) == p[1] * q[2] = q[1] * p[2]
InRange(q) == q[1] >= 0 /\ 2 * q[1] <= 7999 * q[2]

\* The standard subtractive numeral, digit by digit.
FormaUnidades ==
  << <<>>, <<"I">>, <<"I", "I">>, <<"I", "I", "I">>, <<"I", "V">>, <<"V">>, <<"V", "I">>,
     <<"V", "I", "I">>, <<"V", "I", "I", "I">>, <<"I", "X">> >>
FormaDecenas ==
  << <<>>, <<"X">>, <<"X", "X">>, <<"X", "X", "X">>, <<"X", "L">>, <<"L">>, <<"L", "X">>,
     <<"L", "X", "X">>, <<"L", "X", "X", "X">>, <<"X", "C">> >>
FormaCentenas ==
  << <<>>, <<"C">>, <<"C", "C">>, <<"C", "C", "C">>, <<"C", "D">>, <<"D">>, <<"D", "C">>,
     <<"D", "C", "C">>, <<"D", "C", "C", "C">>, <<"C", "M">> >>
FormaMiles == << <<>>, <<"M">>, <<"M", "M">>, <<"M", "M", "M">> >>

StandardNumeral(n) ==
  FormaMiles[(n \div 1000) + 1] \o FormaCentenas[((n \div 100) % 10) + 1]
    \o FormaDecenas[((n \div 10) % 10) + 1] \o FormaUnidades[(n % 10) + 1]

\* The glyph of k twelfths, k in 1..6 (6 is S).
Glyph(k) == IF k = 6 THEN <<"S">> ELSE [j \in 1..k |-> DOT]

\* The distance from table entry f to q over a common denominator: first
\* |value - q| in units of 1/(12 * q[2]) for the twelfths exactly, then the
\* same with the table's stored floats taken into account.
IdealDist(f, q) == Abs(valores_fracciones[f][2][1] * q[2] - 12 * q[1])
StoredDist(f, q) ==
  LET a == valores_fracciones[f][2][1] * q[2] - 12 * q[1]
      e == valores_fracciones[f][2][3] - q[3]
  IN  IF a > 0 \/ (a = 0 /\ e >= 0) THEN <<a, e>> ELSE <<-a, -e>>
Nearer(x, y) == x[1] < y[1] \/ (x[1] = y[1] /\ x[2] < y[2])

\* Entry f has the minimum distance to q, and is the first in the table to.
IsClosestEntry(f, q) ==
  /\ \A j \in 1..6 : ~Nearer(StoredDist(j, q), StoredDist(f, q))
  /\ \A j \in 1..(f - 1) : Nearer(StoredDist(f, q), StoredDist(j, q))

Returned == pc \in {"called", "chained"}

\* C1: for every integer n in 1..3999, a_decimal(a_romano(n)) raises nothing and
\* returns exactly n.
C1_RoundTrip ==
  (op = "a_romano" /\ IsInteger(arg) /\ arg[1] >= arg[2] /\ arg[1] <= 3999 * arg[2]) =>
     /\ Returned => ret.ok
     /\ pc = "chained" => ret2 = Ok(Int2Rat(arg[1] \div arg[2]))

C1_Witness ==
  /\ pc = "chained" /\ op = "a_romano"
  /\ arg = <<1994 * Den, Den, 0>>
  /\ ret.val = <<"M", "C", "M", "X", "C", "I", "V">>
  /\ ret2 = Ok(Int2Rat(1994))

\* C4: a_romano(d) fails with the out-of-range error exactly when d < 0 or
\* d > 3999.5; for every d in [0, 3999.5] it returns a non-empty string.
C4_RangeTotal ==
  (op = "a_romano" /\ Returned) =>
     /\ ~InRange(arg) <=> ret = RomanError(<<"Numero fuera de rango">>)
     /\ InRange(arg) => (ret.ok /\ Len(ret.val) > 0)

C4_Witness ==
  /\ op = "a_romano" /\ Returned
  /\ RatEq(arg, <<7999, 2, 0>>)
  /\ ret = Ok(<<"M", "M", "M", "C", "M", "X", "C", "I", "X", "S">>)

\* C5: for every integer n in 0..3999, a_romano(n) is the standard subtractive
\* numeral of n, and the token Nihil for n = 0.
C5_Standard ==
  (op = "a_romano" /\ Returned /\ IsInteger(arg) /\ arg[1] >= 0 /\ arg[1] <= 3999 * arg[2]) =>
     LET n == arg[1] \div arg[2]
     IN  ret = Ok(IF n = 0 THEN Nihil ELSE StandardNumeral(n))

C5_Witness ==
  /\ op = "a_romano" /\ Returned
  /\ arg = <<949 * Den, Den, 0>>
  /\ ret = Ok(<<"C", "M", "X", "L", "I", "X">>)

\* C8: for every d in [0, 3999.5] with a remainder d - trunc(d) > 0, a_romano(d)
\* is the numeral of the integer part followed by exactly one glyph, the one
\* nearest to the remainder (the earlier table entry on a tie); the 0.01 guard
\* never drops it, and Nihil is returned only for d = 0.
C8_ClosestGlyph ==
  (op = "a_romano" /\ Returned /\ InRange(arg)) =>
     LET n == arg[1] \div arg[2]
         r == <<arg[1] - n * arg[2], arg[2], arg[3]>>
     IN  /\ r[1] > 0 =>
              \E f \in 1..6 :
                 /\ ret = Ok(StandardNumeral(n) \o valores_fracciones[f][1])
                 /\ IsClosestEntry(f, r)
                 /\ \A j \in 1..6 : IdealDist(f, r) <= IdealDist(j, r)
         /\ ret.val = Nihil <=> arg[1] = 0

\* 0.375 is midway between the stored 4/12 and 5/12 (a tie): four dots, the
\* earlier entry.
C8_Witness ==
  /\ op = "a_romano" /\ Returned
  /\ RatEq(arg, <<3, 8, 0>>)
  /\ ret = Ok(<<DOT, DOT, DOT, DOT>>)

\* 0.125 is midway between 1/12 and 2/12, but the stored 1/12 lies below 1/12
\* by twice what the stored 2/12 lies below 2/12: two dots are nearer.
C8_WitnessNearTie ==
  /\ op = "a_romano" /\ Returned
  /\ RatEq(arg, <<12 * 8 + 1, 8, 0>>)
  /\ ret = Ok(<<"X", "I", "I", DOT, DOT>>)

\* ------------------------------------------------- a_decimal, then a_romano
Alphabet == {"I", "V", "X", "L", "C", "D", "M", "S", DOT, "m"}
Strings(A, n) == UNION {[1..k -> A] : k \in 0..n}

\* The inputs: numerals of 0..3999 with something before and after (Nihil is
\* what a_romano gives for 0), every short string, the forbidden sequences in
\* either case with padding, and the strings over M, C, D.
CanonRange == 0..3999
Antes == {<<>>, <<"S">>, <<DOT>>}
Despues == {<<>>} \cup {Glyph(k) : k \in 1..6} \cup {<<"S", DOT>>, <<"s">>}
Forbidden ==
  {invalid_sequences[k] : k \in 1..Len(invalid_sequences)}
    \cup {<<"i", "i", "i", "i">>, <<"v", "V">>, <<"x", "x", "X", "X">>, <<"l", "l">>,
          <<"C", "c", "C", "c">>, <<"d", "D">>, <<"m", "m", "m", "m">>}

InitDecimal ==
  /\ pc = "start"
  /\ op = "none"
  /\ ret = None
  /\ ret2 = None
  /\ \/ \E n \in CanonRange, a \in Antes, d \in Despues :
          /\ gen = [kind |-> "canon", n |-> n, antes |-> a, despues |-> d]
          /\ arg = a \o StandardNumeral(n) \o d
     \/ /\ gen = [kind |-> "free"]
        /\ arg \in Strings(Alphabet, MaxLen)
     \/ \E q \in Forbidden, a \in Strings(Alphabet, MaxPad), d \in Strings(Alphabet, MaxPad) :
          /\ gen = [kind |-> "forbidden", seq |-> q]
          /\ arg = a \o q \o d
     \/ /\ gen = [kind |-> "big"]
        /\ arg \in Strings({"M", "C", "D"}, MaxBig)

\* A caller invokes NumRom.a_decimal(arg).
CallADecimal ==
  /\ pc = "start"
  /\ pc' = "called"
  /\ op' = "a_decimal"
  /\ ret' = a_decimal(arg)
  /\ UNCHANGED <<arg, gen, ret2>>

\* The caller feeds the value it got back to NumRom.a_romano.
BackToRomano ==
  /\ pc = "called"
  /\ op = "a_decimal"
  /\ ret.ok
  /\ pc' = "chained"
  /\ ret2' = a_romano(ret.val)
  /\ UNCHANGED <<op, arg, gen, ret>>

NextDecimal == CallADecimal \/ BackToRomano

SpecDecimal == InitDecimal /\ [][NextDecimal]_vars

\* ------------------------------------------ properties of a_decimal's inputs
\* sub occurs in s.
Occurs(sub, s) ==
  \E i \in 1..(Len(s) - Len(sub) + 1) : SubSeq(s, i, i + Len(sub) - 1) = sub

HasForbidden(s) ==
  \/ Occurs(<<"I", "I", "I", "I">>, s) \/ Occurs(<<"V", "V">>, s)
  \/ Occurs(<<"X", "X", "X", "X">>, s) \/ Occurs(<<"L", "L">>, s)
  \/ Occurs(<<"C", "C", "C", "C">>, s) \/ Occurs(<<"D", "D">>, s)
  \/ Occurs(<<"M", "M", "M", "M">>, s)

\* Every S and every dot lies among the last six characters.
FractionsAtEnd(s) == \A p \in 1..Len(s) : s[p] \in {"S", DOT} => p > Len(s) - 6

\* s is a run of digit symbols in table order: some M, then some CM, then some
\* D, ... (any split into symbols whose table index never decreases).
RECURSIVE TableOrderRun(_, _, _)
TableOrderRun(s, i, kmin) ==
  \/ i = Len(s)
  \/ \E k \in kmin..Len(valores_romanos) :
       LET sym == valores_romanos[k][1]
       IN  /\ i + Len(sym) <= Len(s)
           /\ SubSeq(s, i + 1, i + Len(sym)) = sym
           /\ TableOrderRun(s, i + Len(sym), k)

\* The whole string is consumed: a table-order run, then nothing or the glyph
\* the fraction loop matches (S, or one dot: the first entry a string ends with).
ConsumedExactly(s) ==
  \/ TableOrderRun(s, 0, 1)
  \/ /\ Len(s) > 0
     /\ s[Len(s)] \in {"S", DOT}
     /\ TableOrderRun(SubSeq(s, 1, Len(s) - 1), 0, 1)

\* C2: for every glyph g and every canonical numeral r of n in 1..3999,
\* a_decimal(r + g) succeeds and returns n plus the tabulated value of g.
C2_FractionSuffix ==
  (/\ pc = "called" /\ op = "a_decimal" /\ gen.kind = "canon"
   /\ gen.n >= 1 /\ gen.antes = <<>> /\ \E k \in 1..6 : gen.despues = Glyph(k)) =>
     LET k == CHOOSE j \in 1..6 : gen.despues = Glyph(j)
     IN  ret.ok /\ SameRational(ret.val, <<12 * gen.n + k, 12, 0>>)

\* C3: a string whose uppercased form contains one of the seven forbidden
\* sequences fails with the invalid-sequence error, whatever else it holds.
C3_ForbiddenRejected ==
  (op = "a_decimal" /\ Returned /\ HasForbidden(upper(arg))) =>
     /\ ~ret.ok
     /\ ret.err[1] = "Secuencia invalida encontrada"
     /\ Occurs(ret.err[2], upper(arg))

C3_Witness ==
  /\ op = "a_decimal" /\ Returned
  /\ arg = <<"S", "m", "m", "m", "m", "m">>
  /\ ret = RomanError(<<"Secuencia invalida encontrada", <<"M", "M", "M", "M">> >>)

\* C9: a_decimal returns a value only when the whole uppercased string was
\* consumed exactly (a table-order run of digit symbols, then at most the one
\* glyph matched at the end); a string that passes validation and is not
\* consumed exactly fails with the invalid-numeral error.
C9_ConsumedExactly ==
  (op = "a_decimal" /\ Returned) =>
     LET s == upper(arg)
     IN  /\ ret.ok => (Len(s) > 0 /\ ConsumedExactly(s))
         /\ (Len(s) > 0 /\ ~HasForbidden(s) /\ FractionsAtEnd(s)) =>
              IF ConsumedExactly(s) THEN ret.ok
              ELSE ret = RomanError(<<"Numero romano invalido">>)

C9_Witness ==
  /\ op = "a_decimal" /\ Returned
  /\ arg = <<"X", "I", "I", "S", DOT>>
  /\ ret = RomanError(<<"Numero romano invalido">>)

\* C10: every value a_decimal returns lies in [0, 3999.5], so a_romano takes it.
C10_ValueInRange ==
  /\ (op = "a_decimal" /\ Returned /\ ret.ok) => InRange(ret.val)
  /\ (op = "a_decimal" /\ pc = "chained") => ret2.ok

\* ------------------------------------------------------------------ MedRom
lower_char(c) ==
  CASE c = "P" -> "p" [] c = "E" -> "e" [] c = "S" -> "s" [] c = "A" -> "a"
    [] c = "U" -> "u" [] c = "T" -> "t" [] c = "D" -> "d" [] c = "I" -> "i"
    [] c = "M" -> "m" [] c = "L" -> "l" [] c = "B" -> "b" [] c = "R" -> "r"
    [] c = "N" -> "n" [] c = "C" -> "c" [] c = "H" -> "h" [] c = "O" -> "o"
    [] c = "X" -> "x" [] OTHER -> c

lower(s) == [k \in 1..Len(s) |-> lower_char(s[k])]

\* The dict _medidas in definition order, each factor as an exact rational
\* (0.296 is 296/1000, 0.3289 / 12 is 3289/120000).
medidas ==
  << <<<<"p", "e", "s">>, <<296, 1000, 0>> >>,
     <<<<"p", "a", "s", "s", "u", "s">>, <<148, 100, 0>> >>,
     <<<<"s", "t", "a", "d", "i", "u", "m">>, <<185, 1, 0>> >>,
     <<<<"m", "i", "l", "l", "e", "_", "p", "a", "s", "s", "u", "s">>, <<1480, 1, 0>> >>,
     <<<<"l", "i", "b", "r", "a">>, <<3289, 10000, 0>> >>,
     <<<<"u", "n", "c", "i", "a">>, <<3289, 120000, 0>> >>,
     <<<<"a", "m", "p", "h", "o", "r", "a">>, <<262, 10, 0>> >>,
     <<<<"s", "e", "x", "t", "a", "r", "i", "u", "s">>, <<546, 1000, 0>> >> >>

\* list(_medidas.keys())
unidades_disponibles == [k \in 1..Len(medidas) |-> medidas[k][1]]

\* unit in _medidas
en_medidas(unit) == \E k \in 1..Len(medidas) : medidas[k][1] = unit

\* _medidas[unit]
factor(unit) == medidas[CHOOSE k \in 1..Len(medidas) : medidas[k][1] = unit][2]

\* Variant: the value is checked before the unit.
a_modernas_valor_primero(value, unit0) ==
  LET unit == lower(unit0)
  IN  IF RatLt(value, Int2Rat(0))
      THEN RomanError(<<"El valor debe ser un numero no negativo">>)
      ELSE IF ~en_medidas(unit)
      THEN RomanError(<<"Unidad desconocida", unit, unidades_disponibles>>)
      ELSE Ok(RatMul(value, factor(unit)))

a_modernas(value, unit0) ==
  LET unit == lower(unit0)
  IN  IF ~en_medidas(unit)
      THEN RomanError(<<"Unidad desconocida", unit, unidades_disponibles>>)
      ELSE IF RatLt(value, Int2Rat(0))
      THEN RomanError(<<"El valor debe ser un numero no negativo">>)
      ELSE Ok(RatMul(value, factor(unit)))

\* Variant: floor division "//" in place of "/".
a_unidad_romana_floor(value, unit0) ==
  LET unit == lower(unit0)
  IN  IF ~en_medidas(unit)
      THEN RomanError(<<"Unidad desconocida", unit, unidades_disponibles>>)
      ELSE IF RatLt(value, Int2Rat(0))
      THEN RomanError(<<"El valor debe ser un numero no negativo">>)
      ELSE Ok(Int2Rat(Trunc(RatDiv(value, factor(unit)))))

a_unidad_romana(value, unit0) ==
  LET unit == lower(unit0)
  IN  IF ~en_medidas(unit)
      THEN RomanError(<<"Unidad desconocida", unit, unidades_disponibles>>)
      ELSE IF RatLt(value, Int2Rat(0))
      THEN RomanError(<<"El valor debe ser un numero no negativo">>)
      ELSE Ok(RatDiv(value, factor(unit)))

conversion_unidades(value, from_unit0, to_unit0) ==
  LET from_unit == lower(from_unit0)
      to_unit == lower(to_unit0)
  IN  IF ~en_medidas(from_unit) \/ ~en_medidas(to_unit)
      THEN RomanError(<<"Unidades invalidas", unidades_disponibles>>)
      ELSE LET modern_value == a_modernas(value, from_unit)
           IN  IF ~modern_value.ok THEN modern_value
               ELSE a_unidad_romana(modern_value.val, to_unit)

\* ------------------------------------------------------ measurement callers
UnitInputs ==
  {medidas[k][1] : k \in 1..Len(medidas)}
    \cup {<<"P", "E", "S">>, <<"L", "i", "b", "r", "a">>, <<"A", "M", "P", "H", "O", "R", "A">>}
    \cup {<<"m", "o", "d", "e", "r", "n">>, <<"p", "i", "e">>, <<>>}

ValueInputs == {<<k, ValDen, 0>> : k \in (-2)..MaxVal}

InitMed ==
  /\ pc = "start"
  /\ op = "none"
  /\ gen = [kind |-> "med"]
  /\ arg \in [value : ValueInputs, from_unit : UnitInputs, to_unit : UnitInputs]
  /\ ret = None
  /\ ret2 = None

CallAModernas ==
  /\ pc = "start"
  /\ pc' = "called"
  /\ op' = "a_modernas"
  /\ ret' = a_modernas(arg.value, arg.from_unit)
  /\ UNCHANGED <<arg, gen, ret2>>

CallAUnidadRomana ==
  /\ pc = "start"
  /\ pc' = "called"
  /\ op' = "a_unidad_romana"
  /\ ret' = a_unidad_romana(arg.value, arg.from_unit)
  /\ UNCHANGED <<arg, gen, ret2>>

CallConversionUnidades ==
  /\ pc = "start"
  /\ pc' = "called"
  /\ op' = "conversion_unidades"
  /\ ret' = conversion_unidades(arg.value, arg.from_unit, arg.to_unit)
  /\ UNCHANGED <<arg, gen, ret2>>

\* The caller converts the result back: conversion_unidades(result, B, A).
ConvertBack ==
  /\ pc = "called"
  /\ op = "conversion_unidades"
  /\ ret.ok
  /\ pc' = "chained"
  /\ ret2' = conversion_unidades(ret.val, arg.to_unit, arg.from_unit)
  /\ UNCHANGED <<op, arg, gen, ret>>

NextMed == CallAModernas \/ CallAUnidadRomana \/ CallConversionUnidades \/ ConvertBack

SpecMed == InitMed /\ [][NextMed]_vars

\* ------------------------------------------- properties of the measurements
UnitNames ==
  {<<"p", "e", "s">>, <<"p", "a", "s", "s", "u", "s">>, <<"s", "t", "a", "d", "i", "u", "m">>,
   <<"m", "i", "l", "l", "e", "_", "p", "a", "s", "s", "u", "s">>, <<"l", "i", "b", "r", "a">>,
   <<"u", "n", "c", "i", "a">>, <<"a", "m", "p", "h", "o", "r", "a">>,
   <<"s", "e", "x", "t", "a", "r", "i", "u", "s">>}

Known(u) == lower(u) \in UnitNames

\* The units the call at hand is given.
UnitsGiven ==
  IF op = "conversion_unidades" THEN {arg.from_unit, arg.to_unit} ELSE {arg.from_unit}

\* The last part of the message holds every unit name of the table.
ListsUnits(e) ==
  /\ Len(e) >= 2
  /\ \A u \in UnitNames : \E j \in 1..Len(e[Len(e)]) : e[Len(e)][j] = u

\* C6: for all units A, B of the table and every v >= 0,
\* conversion_unidades(conversion_unidades(v, A, B), B, A) succeeds and is v.
C6_UnitRoundTrip ==
  (/\ op = "conversion_unidades" /\ Known(arg.from_unit) /\ Known(arg.to_unit)
   /\ arg.value[1] >= 0) =>
     /\ Returned => ret.ok
     /\ pc = "chained" => (ret2.ok /\ RatEq(ret2.val, arg.value))

C6_Witness ==
  /\ pc = "chained" /\ op = "conversion_unidades"
  /\ arg.from_unit = <<"u", "n", "c", "i", "a">>
  /\ arg.to_unit = <<"P", "E", "S">>
  /\ arg.value = <<3, ValDen, 0>>
  /\ ~RatEq(ret.val, arg.value)
  /\ ret2.ok /\ RatEq(ret2.val, arg.value)

\* C7: each measurement operation returns a value exactly when every unit it
\* is given is, lowercased, a key of the table and the value is >= 0; with an
\* unknown unit the error is the unknown-unit one, which lists the valid names,
\* also when the value is negative.
C7_MeasurementErrors ==
  (op \in {"a_modernas", "a_unidad_romana", "conversion_unidades"} /\ Returned) =>
     /\ ret.ok <=> ((\A u \in UnitsGiven : Known(u)) /\ arg.value[1] >= 0)
     /\ (\E u \in UnitsGiven : ~Known(u)) =>
          (/\ ~ret.ok
           /\ ret.err[1] \in {"Unidad desconocida", "Unidades invalidas"}
           /\ ListsUnits(ret.err))
     /\ ((\A u \in UnitsGiven : Known(u)) /\ arg.value[1] < 0) =>
          ret = RomanError(<<"El valor debe ser un numero no negativo">>)

C7_Witness ==
  /\ op = "a_modernas" /\ Returned
  /\ arg.from_unit = <<"p", "i", "e">>
  /\ arg.value[1] < 0
  /\ ~ret.ok /\ ret.err[1] = "Unidad desconocida"

====
